---------------------------- MODULE Spec2Model ----------------------------
(***************************************************************************)
(* A model of src/services.py: the Fastly service command line tool.       *)
(*                                                                         *)
(* The program is single threaded.  Its observable behaviour is the        *)
(* sequence of HTTP exchanges it has with the provider and the way the     *)
(* entry point that was called ends (a return value or an exception).      *)
(* One action models one stretch of code up to and including one HTTP      *)
(* exchange; the provider's answer is the environment's choice.            *)
(*                                                                         *)
(* Python values: a str is a TLA+ string, None and True are the sentinels  *)
(* None and PyTrue.  A service_version of None is written 0: the code only *)
(* tests it with "not service_version", which treats None and 0 alike.     *)
(* The module is read as Python 2 (it uses the builtin file()).            *)
(***************************************************************************)
EXTENDS Integers, Sequences, FiniteSets, TLC

\* ------------------------------------------------------------- bounds
MaxVersion == 3
MaxListing == 3

\* ---------------------------------------------------- program constants
HTTP_OK == 200
TLS_PORT == 443
FIRST_BYTE_TIMEOUT == 30000

\* ------------------------------------------------------- Python values
None == "<None>"
PyTrue == "<True>"
Absent == "<absent>"
NoValue == "<novalue>"

\* bool(v) for the values the command line and the callers can produce
Truthy(v) == v \notin {None, ""}

\* "not service_version" (None is written 0)
NotVersion(v) == v = 0

\* ------------------------------------------------------ the environment
Names == {"shop", "other"}
Ids == {"idA", "idB"}
Versions == 1..MaxVersion
StatusCodes == {200, 204, 404}
Texts == {"body1", "body2"}

Entry == [name : Names, version : Versions, id : Ids]
NoService == [name |-> "", version |-> 0, id |-> ""]

RECURSIVE SeqsUpTo(_, _)
SeqsUpTo(S, n) ==
    IF n = 0 THEN {<< >>}
    ELSE LET shorter == SeqsUpTo(S, n - 1)
         IN  shorter \cup {Append(s, x) : s \in {t \in shorter : Len(t) = n - 1}, x \in S}

\* what a listing request to the lookup entry point may hold
AllListings == SeqsUpTo(Entry, MaxListing)
\* what a listing request inside a longer operation may hold
ShortListings == {l \in AllListings : Len(l) <= 1}

\* the files the program may be pointed at: a path maps to its contents
\* when it can be read
Readable == {"ca.pem", "main.vcl"}
FileBody(path) == IF path = "ca.pem" THEN "CERTIFICATE" ELSE "vcl 4.0"

\* ------------------------------------------------------------ the state
VARIABLES
    API_KEY,   \* the module global, read once from the environment
    entry,     \* the function the caller invoked
    args,      \* main's argument namespace
    pc,        \* main's position ("lib" when a library function was invoked)
    version,   \* main's local: the cloned version number
    fn,        \* the library function now executing ("" for none)
    fpc,       \* its position
    f,         \* its parameters and locals
    log,       \* the HTTP exchanges so far, oldest first
    resp,      \* the last HTTP response received
    result     \* how the entry point ended

vars == <<API_KEY, entry, args, pc, version, fn, fpc, f, log, resp, result>>

\* ------------------------------------------------------ results, frames
\* how a call ends: kind "return" (type is the Python type of the value)
\* or kind "raise" (type is the exception class, text its detail)
Running == [kind |-> "running", type |-> "", text |-> "", status_code |-> 0,
            number |-> 0, service |-> NoService]
Raised(cls, detail) == [Running EXCEPT !.kind = "raise", !.type = cls, !.text = detail]
ReturnedNone == [Running EXCEPT !.kind = "return", !.type = "NoneType"]
ReturnedResponse(r) == [Running EXCEPT !.kind = "return", !.type = "Response",
                                       !.text = r.text, !.status_code = r.status_code]
ReturnedDict(n) == [Running EXCEPT !.kind = "return", !.type = "dict", !.number = n]
ReturnedService(s) == [Running EXCEPT !.kind = "return", !.type = "dict", !.service = s]
ReturnedStr(t) == [Running EXCEPT !.kind = "return", !.type = "str", !.text = t]

NoResponse == [status_code |-> 0, text |-> "", listing |-> << >>, number |-> 0]
ListingResponses(L) ==
    {[NoResponse EXCEPT !.status_code = HTTP_OK, !.listing = l] : l \in L}
    \cup {[NoResponse EXCEPT !.status_code = c, !.text = t] :
              c \in StatusCodes \ {HTTP_OK}, t \in Texts}
PlainResponses == [status_code : StatusCodes, text : Texts, listing : {<< >>}, number : {0}]
CloneResponses ==
    {[NoResponse EXCEPT !.status_code = HTTP_OK, !.text = t, !.number = n] :
         t \in Texts, n \in 1..(MaxVersion + 1)}
    \cup {r \in PlainResponses : r.status_code # HTTP_OK}

NoFrame == [name |-> None, api_key |-> None, service_version |-> 0, service_id |-> "",
            vcl |-> None, vcl_name |-> "main", cert |-> None, cert_domain |-> None,
            backend |-> None, domain |-> None, username |-> None, password |-> None]

NoData == {}
\* one HTTP exchange: the request, the status it was answered with and, for
\* a clone, the version number in the answer
Exchange(method, op, fr, key, data, r) ==
    [method |-> method, op |-> op, sid |-> fr.service_id, ver |-> fr.service_version,
     item |-> "", key |-> key, data |-> data, status |-> r.status_code,
     number |-> r.number]
ListingExchange(key, r) ==
    [method |-> "GET", op |-> "service", sid |-> "", ver |-> 0,
     item |-> "", key |-> key, data |-> NoData, status |-> r.status_code,
     number |-> 0]

\* ------------------------------------------------------------ json.dumps
\* A payload is the set of its members <<key, JSON type, JSON text>>.
JsonStr(s) == IF s = None THEN <<"null", "null">> ELSE <<"string", s>>
JsonNum(n) == <<"number", ToString(n)>>
JsonTrue == <<"true", "true">>
Member(k, v) == <<k, v[1], v[2]>>
Keys(data) == {m[1] : m \in data}

\* ------------------------------------------------------------ get_service
\* a lookup that takes the first entry of the name instead of the highest
FirstByVersion(best, rest) == best

\* max(seq, key=version): the first element no later element beats
RECURSIVE MaxByVersion(_, _)
MaxByVersion(best, rest) ==
    IF rest = << >> THEN best
    ELSE MaxByVersion(IF Head(rest).version > best.version THEN Head(rest) ELSE best,
                      Tail(rest))

NameMatches(service, name) == service.name = name

Matching(listing, name) == SelectSeq(listing, LAMBDA s : NameMatches(s, name))

ListingFailed(r) == r.status_code # HTTP_OK

\* a lookup that answers an empty match with a default entry
get_service_or_default(name, r) ==
    IF ListingFailed(r) THEN Raised("UsageException", r.text)
    ELSE LET found == Matching(r.listing, name)
         IN  IF found = << >> THEN ReturnedService(NoService)
             ELSE ReturnedService(MaxByVersion(Head(found), Tail(found)))

\* get_service's outcome on the listing response r
get_service(name, r) ==
    IF ListingFailed(r) THEN Raised("UsageException", r.text)
    ELSE LET found == Matching(r.listing, name)
         IN  IF found = << >> THEN Raised("NotFoundException", name)
             ELSE ReturnedService(MaxByVersion(Head(found), Tail(found)))

\* ------------------------------------------------------------- parse_args
\* A command line gives each option a value, or leaves it out (Absent);
\* --modify may also be given without a value (NoValue).
Default(v, d) == IF v = Absent THEN d ELSE v
parse_args(cmd) ==
    [name |-> Default(cmd.name, None),
     vcl |-> Default(cmd.vcl, None),
     key |-> Default(cmd.key, None),
     cert |-> Default(cmd.cert, None),
     backend |-> Default(cmd.backend, None),
     domain |-> Default(cmd.domain, None),
     modify |-> IF cmd.modify = NoValue THEN PyTrue ELSE Default(cmd.modify, PyTrue),
     activate |-> Default(cmd.activate, PyTrue)]

\* ------------------------------------------------------------------ main
\* the steps of main after the clone, in the order of the source
StageFn(stage) ==
    CASE stage = "clone" -> "clone_service"
      [] stage = "backend" -> "create_backend"
      [] stage = "delete_vcl" -> "delete_vcl"
      [] stage = "upload_vcl" -> "upload_vcl"
      [] stage = "domain" -> "add_domain"
      [] stage = "activate" -> "activate_service"
      [] OTHER -> ""

\* the "if args.x:" guarding a step
Wanted(stage) ==
    CASE stage = "backend" -> Truthy(args.backend)
      [] stage = "delete_vcl" -> Truthy(args.vcl)
      [] stage = "domain" -> Truthy(args.domain)
      [] stage = "activate" -> Truthy(args.activate)
      [] OTHER -> TRUE

\* the step that follows a completed step
After(stage) ==
    CASE stage = "clone" -> "backend"
      [] stage = "backend" -> "delete_vcl"
      [] stage = "delete_vcl" -> "upload_vcl"
      [] stage = "upload_vcl" -> "domain"
      [] stage = "domain" -> "activate"
      [] OTHER -> "end"

\* the step that follows a step whose "if" was false
Skipped(stage) ==
    CASE stage = "backend" -> "delete_vcl"
      [] stage = "delete_vcl" -> "domain"
      [] stage = "domain" -> "activate"
      [] OTHER -> "end"

RECURSIVE StageFrom(_)
StageFrom(stage) ==
    IF stage = "end" \/ Wanted(stage) THEN stage ELSE StageFrom(Skipped(stage))

\* the arguments main passes to the call of a step
MainCall(stage, ver) ==
    LET base == [NoFrame EXCEPT !.name = args.name, !.api_key = args.key,
                                !.service_version = ver]
    IN  CASE stage = "clone" -> [base EXCEPT !.service_version = 0]
          [] stage = "backend" -> [base EXCEPT !.backend = args.backend, !.cert = args.cert,
                                               !.cert_domain = args.domain]
          [] stage = "upload_vcl" -> [base EXCEPT !.vcl = args.vcl]
          [] stage = "domain" -> [base EXCEPT !.domain = args.domain]
          [] OTHER -> base

\* vars() inside main is main's locals
MainLocals == {"args"}
\* a credential test with its sense inverted
NoCredentialInverted == "API_KEY" \notin MainLocals /\ Truthy(args.key)
NoCredential == "API_KEY" \notin MainLocals /\ ~Truthy(args.key)

\* an int status never equals the str '200'
StatusIsStr200(code) == FALSE

\* "if new_service.status_code != '200': raise", on what clone_service returned
CloneCheck(ret) ==
    IF ret.type # "Response" THEN Raised("AttributeError", "status_code")
    ELSE IF ~StatusIsStr200(ret.status_code) THEN Raised("UsageException", ret.text)
    ELSE Running

\* whether an exception raised at main's step is caught there
Caught(stage) == stage = "delete_vcl"

\* --------------------------------------------------- leaving and entering
Finish(res) ==
    /\ pc' = "done"
    /\ fn' = ""
    /\ fpc' = ""
    /\ result' = res
    /\ UNCHANGED <<f, version>>

Enter(stage, ver) ==
    IF stage = "end"
    THEN /\ pc' = "done" /\ fn' = "" /\ fpc' = "" /\ result' = ReturnedNone
         /\ version' = ver
         /\ UNCHANGED f
    ELSE /\ pc' = stage
         /\ fn' = StageFn(stage)
         /\ fpc' = "lookup"
         /\ f' = MainCall(stage, ver)
         /\ version' = ver
         /\ UNCHANGED result

\* the executing function ends with res: a library call ends there, main goes on
Leave(res) ==
    IF entry # "main" THEN Finish(res)
    ELSE IF res.kind = "raise"
         THEN IF Caught(pc) THEN Enter(StageFrom(After(pc)), version) ELSE Finish(res)
         ELSE IF pc = "clone"
              THEN IF CloneCheck(res).kind = "raise" THEN Finish(CloneCheck(res))
                   ELSE Enter(StageFrom(After(pc)), res.number)
              ELSE Enter(StageFrom(After(pc)), version)

\* main up to the call of clone_service
MainStart ==
    /\ entry = "main" /\ pc = "start"
    /\ IF ~Truthy(args.name) THEN Finish(Raised("UsageException", "help"))
       ELSE IF NoCredential THEN Finish(Raised("AuthException", "help"))
       ELSE IF Truthy(args.modify)
            THEN /\ pc' = "clone" /\ fn' = StageFn("clone") /\ fpc' = "lookup"
                 /\ f' = MainCall("clone", 0)
                 /\ UNCHANGED <<version, result>>
            ELSE Finish(ReturnedNone)
    /\ UNCHANGED <<API_KEY, entry, args, log, resp>>

\* ------------------------------------------------------------ the lookups
\* the functions that resolve the service before their request
LookupFns == {"get_service", "clone_service", "create_backend", "delete_backend",
              "delete_vcl", "upload_vcl", "add_domain", "delete_domain",
              "activate_service"}

\* the credential a lookup is made with: api_key where the call passes it on,
\* the module default where the call is get_service(name)
LookupKey(fun, at) ==
    IF \/ fun = "delete_domain"
       \/ fun = "create_token"
       \/ fun \in {"add_domain", "delete_backend"} /\ at = "lookup2"
    THEN API_KEY ELSE f.api_key

\* the functions whose first lookup also supplies a missing service_version
VersionFromFirst == {"upload_vcl", "delete_vcl", "activate_service"}
\* the functions that always look the version up a second time
AlwaysSecond == {"clone_service", "delete_domain", "delete_backend"}
\* the functions that look it up a second time when none was passed
SecondIfMissing == {"add_domain", "create_backend"}

AfterLookup(fun, at, fr, service) ==
    IF at = "lookup"
    THEN [fr EXCEPT !.service_id = service.id,
                    !.service_version =
                        IF fun \in VersionFromFirst /\ NotVersion(@)
                        THEN service.version ELSE @]
    ELSE [fr EXCEPT !.service_version = service.version]

NextFpc(fun, at, fr) ==
    IF at = "lookup" /\ (\/ fun \in AlwaysSecond
                         \/ fun \in SecondIfMissing /\ NotVersion(fr.service_version))
    THEN "lookup2" ELSE "request"

\* one call of get_service by the executing function, on listing response r
Lookup(r) ==
    LET out == get_service(f.name, r)
    IN  /\ log' = Append(log, ListingExchange(LookupKey(fn, fpc), r))
        /\ resp' = r
        /\ IF out.kind = "raise" \/ fn = "get_service" THEN Leave(out)
           ELSE /\ f' = AfterLookup(fn, fpc, f, out.service)
                /\ fpc' = NextFpc(fn, fpc, f)
                /\ UNCHANGED <<pc, version, fn, result>>

ListingsFor(fun) == IF fun = "get_service" THEN AllListings ELSE ShortListings

GetService ==
    /\ fn \in LookupFns /\ fpc \in {"lookup", "lookup2"}
    /\ \E r \in ListingResponses(ListingsFor(fn)) : Lookup(r)
    /\ UNCHANGED <<API_KEY, entry, args>>

\* ----------------------------------------------------------- the requests
\* "if resp.status_code != 200: raise FastlyException(text) else: return resp"
Checked(r) ==
    IF r.status_code # HTTP_OK THEN Raised("FastlyException", r.text)
    ELSE ReturnedResponse(r)

\* the executing function's request is answered with r and it ends with outcome
Request(method, op, item, data, key, r, outcome) ==
    /\ log' = Append(log, [Exchange(method, op, f, key, data, r) EXCEPT !.item = item])
    /\ resp' = r
    /\ Leave(outcome)

\* a clone that raises on client and server errors only
clone_service_result_lenient(r) ==
    IF r.status_code >= 400 THEN Raised("FastlyException", r.text)
    ELSE ReturnedDict(r.number)

clone_service_result(r) ==
    IF r.status_code # HTTP_OK THEN Raised("FastlyException", r.text)
    ELSE ReturnedDict(r.number)

CloneRequest ==
    /\ fn = "clone_service" /\ fpc = "request"
    /\ \E r \in CloneResponses :
           Request("PUT", "clone", "", NoData, f.api_key, r, clone_service_result(r))
    /\ UNCHANGED <<API_KEY, entry, args>>

ActivateRequest ==
    /\ fn = "activate_service" /\ fpc = "request"
    /\ \E r \in PlainResponses :
           Request("PUT", "activate", "", NoData, f.api_key, r, Checked(r))
    /\ UNCHANGED <<API_KEY, entry, args>>

DeleteVclRequest ==
    /\ fn = "delete_vcl" /\ fpc = "request"
    /\ \E r \in PlainResponses :
           Request("DELETE", "vcl_item", f.vcl_name, NoData, f.api_key, r, Checked(r))
    /\ UNCHANGED <<API_KEY, entry, args>>

AddDomainRequest ==
    /\ fn = "add_domain" /\ fpc = "request"
    /\ \E r \in PlainResponses :
           Request("POST", "domain", "", {Member("name", JsonStr(f.domain))}, f.api_key,
                   r, Checked(r))
    /\ UNCHANGED <<API_KEY, entry, args>>

\* delete_domain ignores the response and falls off its end
delete_domain_result(r) == ReturnedNone

DeleteDomainRequest ==
    /\ fn = "delete_domain" /\ fpc = "request"
    /\ \E r \in PlainResponses :
           Request("DELETE", "domain_item", f.domain, NoData, f.api_key, r,
                   delete_domain_result(r))
    /\ UNCHANGED <<API_KEY, entry, args>>

\* delete_backend formats its URL with the name backend, which is neither a
\* parameter nor a global: NameError before any request is made
DeleteBackendParams == {"name", "domain", "api_key"}
DeleteBackendRequest ==
    /\ fn = "delete_backend" /\ fpc = "request"
    /\ "backend" \notin DeleteBackendParams
    /\ Leave(Raised("NameError", "backend"))
    /\ UNCHANGED <<API_KEY, entry, args, log, resp>>

\* a backend payload whose TLS part hangs on cert_domain instead of cert
backend_settings_by_domain(backend, cert, cert_domain) ==
    {Member("address", JsonStr(backend)),
     Member("first_byte_timeout", JsonNum(FIRST_BYTE_TIMEOUT)),
     Member("name", JsonStr("Main"))}
    \cup (IF cert_domain # None
          THEN {Member("port", JsonNum(TLS_PORT)),
                Member("ssl_cert_hostname", JsonStr(cert_domain)),
                Member("ssl_check_cert", JsonTrue),
                Member("ssl_ca_cert", JsonStr(FileBody(cert))),
                Member("use_ssl", JsonTrue)}
          ELSE {})

\* the dict create_backend posts
backend_settings(backend, cert, cert_domain) ==
    {Member("address", JsonStr(backend)),
     Member("first_byte_timeout", JsonNum(FIRST_BYTE_TIMEOUT)),
     Member("name", JsonStr("Main"))}
    \cup (IF cert # None
          THEN {Member("port", JsonNum(TLS_PORT)),
                Member("ssl_cert_hostname", JsonStr(cert_domain)),
                Member("ssl_check_cert", JsonTrue),
                Member("ssl_ca_cert", JsonStr(FileBody(cert))),
                Member("use_ssl", JsonTrue)}
          ELSE {})

\* open(path) fails on a path that cannot be read
CannotRead(path) == path \notin Readable

CreateBackendRequest ==
    /\ fn = "create_backend" /\ fpc = "request"
    /\ IF f.cert # None /\ CannotRead(f.cert)
       THEN /\ Leave(Raised("IOError", f.cert))
            /\ UNCHANGED <<log, resp>>
       ELSE \E r \in PlainResponses :
              Request("POST", "backend", "",
                      backend_settings(f.backend, f.cert, f.cert_domain),
                      f.api_key, r, Checked(r))
    /\ UNCHANGED <<API_KEY, entry, args>>

\* upload_vcl_by_id up to its first request: the content POST
UploadVclPost ==
    /\ fn = "upload_vcl" /\ fpc = "request"
    /\ IF CannotRead(f.vcl)
       THEN /\ Leave(Raised("IOError", f.vcl))
            /\ UNCHANGED <<log, resp>>
       ELSE \E r \in PlainResponses :
              /\ log' = Append(log, Exchange("POST", "vcl", f, f.api_key,
                                             {Member("content", JsonStr(FileBody(f.vcl))),
                                              Member("name", JsonStr("Main"))}, r))
              /\ resp' = r
              /\ IF r.status_code # HTTP_OK THEN Leave(Raised("FastlyException", r.text))
                 ELSE /\ fpc' = "request2"
                      /\ UNCHANGED <<pc, version, fn, f, result>>
    /\ UNCHANGED <<API_KEY, entry, args>>

\* the set-main PUT, whose response upload_vcl then checks
UploadVclPut ==
    /\ fn = "upload_vcl" /\ fpc = "request2"
    /\ \E r \in PlainResponses :
           Request("PUT", "vcl_main", "Main", NoData, f.api_key, r, Checked(r))
    /\ UNCHANGED <<API_KEY, entry, args>>

\* username.split('/')[1] when the name holds a slash
SplitUser(u) == IF u = "org/alice" THEN "alice" ELSE u

\* create_token up to the get_service call among its request's arguments;
\* get_pass is not defined in the module
CreateTokenLookup ==
    /\ fn = "create_token" /\ fpc = "lookup"
    /\ IF ~Truthy(f.password)
       THEN /\ Leave(Raised("NameError", "get_pass"))
            /\ UNCHANGED <<log, resp>>
       ELSE \E r \in ListingResponses(ShortListings) : Lookup(r)
    /\ UNCHANGED <<API_KEY, entry, args>>

create_token_result(r) ==
    IF r.status_code = HTTP_OK THEN ReturnedStr("access_token")
    ELSE ReturnedResponse(r)

CreateTokenRequest ==
    /\ fn = "create_token" /\ fpc = "request"
    /\ \E r \in PlainResponses :
           Request("POST", "tokens", "",
                   {Member("service_id", JsonStr(f.service_id)),
                    Member("username", JsonStr(SplitUser(f.username))),
                    Member("password", JsonStr(f.password))},
                   API_KEY, r, create_token_result(r))
    /\ UNCHANGED <<API_KEY, entry, args>>

\* ------------------------------------------------------- initial states
EnvKeys == {"", "envkey"}

NoCommand == [name |-> Absent, vcl |-> Absent, key |-> Absent, cert |-> Absent,
              backend |-> Absent, domain |-> Absent, modify |-> Absent,
              activate |-> Absent]
CommandLines ==
    [name : {Absent, "shop"}, vcl : {Absent, "main.vcl"}, key : {Absent, "k1"},
     cert : {Absent, "ca.pem"}, backend : {Absent, "origin.example"},
     domain : {Absent, "www.example"}, modify : {Absent, NoValue, ""},
     activate : {Absent, "0", "1"}]

\* the arguments a caller of a library function may pass
Frames(fun, k) ==
    LET base == {[NoFrame EXCEPT !.name = "shop", !.api_key = a] : a \in {k, "k1"}}
        versioned == {[b EXCEPT !.service_version = v] : b \in base, v \in 0..MaxVersion}
    IN  CASE fun = "get_service" -> {[b EXCEPT !.name = n] : b \in base, n \in Names}
          [] fun = "clone_service" -> base
          [] fun \in {"activate_service", "delete_vcl"} -> versioned
          [] fun = "upload_vcl" ->
                {[b EXCEPT !.vcl = v] : b \in versioned, v \in {"", "main.vcl"}}
          [] fun = "add_domain" -> {[b EXCEPT !.domain = "www.example"] : b \in versioned}
          [] fun \in {"delete_domain", "delete_backend"} ->
                {[b EXCEPT !.domain = "www.example"] : b \in base}
          [] fun = "create_backend" ->
                {[b EXCEPT !.backend = "origin.example", !.cert = c, !.cert_domain = d] :
                     b \in versioned, c \in {None, "ca.pem", "missing.pem"},
                     d \in {None, "www.example"}}
          [] fun = "create_token" ->
                {[NoFrame EXCEPT !.name = "shop", !.api_key = k, !.username = u,
                                 !.password = w] :
                     u \in {"alice", "org/alice"}, w \in {None, "secret"}}

LibraryFns == LookupFns \cup {"create_token"}

InitMain ==
    /\ entry = "main"
    /\ \E cmd \in CommandLines : args = parse_args(cmd)
    /\ pc = "start" /\ fn = "" /\ fpc = "" /\ f = NoFrame

InitLibrary ==
    /\ entry \in LibraryFns
    /\ args = parse_args(NoCommand)
    /\ pc = "lib" /\ fn = entry /\ fpc = "lookup"
    /\ f \in Frames(entry, API_KEY)

Init ==
    /\ API_KEY \in EnvKeys
    /\ InitMain \/ InitLibrary
    /\ version = 0
    /\ log = << >>
    /\ resp = NoResponse
    /\ result = Running

Next ==
    \/ MainStart
    \/ GetService
    \/ CloneRequest
    \/ CreateBackendRequest
    \/ DeleteVclRequest
    \/ UploadVclPost
    \/ UploadVclPut
    \/ AddDomainRequest
    \/ ActivateRequest
    \/ DeleteDomainRequest
    \/ DeleteBackendRequest
    \/ CreateTokenLookup
    \/ CreateTokenRequest

Spec == Init /\ [][Next]_vars

\* ======================================================================
\* The claims
\* ======================================================================
Done == pc = "done"
MainDone == entry = "main" /\ Done
Last == log[Len(log)]
AllOk == \A i \in DOMAIN log : log[i].status = HTTP_OK
ClonedAt(i) == i \in DOMAIN log /\ log[i].op = "clone" /\ log[i].status = HTTP_OK
HasOp(op, from) == \E j \in DOMAIN log : j > from /\ log[j].op = op
WorkflowOps == {"backend", "vcl_item", "vcl", "vcl_main", "domain", "activate"}

\* C1: a main run with a name and a credential in which every request is
\* answered with success and the clone was made ends normally, having sent
\* every supplied mutator's request and then the activate request, all for
\* the version number the clone returned.
C1_SuccessPath ==
    \A i \in DOMAIN log :
        (/\ MainDone /\ ClonedAt(i) /\ AllOk
         /\ Truthy(args.name) /\ Truthy(args.key) /\ args.activate = PyTrue)
        => /\ result.kind = "return"
           /\ \A j \in DOMAIN log :
                  j > i /\ log[j].op \in WorkflowOps => log[j].ver = log[i].number
           /\ Truthy(args.backend) => HasOp("backend", i)
           /\ Truthy(args.vcl) => HasOp("vcl", i) /\ HasOp("vcl_main", i)
           /\ Truthy(args.domain) => HasOp("domain", i)
           /\ Last.op = "activate" /\ Last.ver = log[i].number

\* C2: once the clone request of a main run has been answered with a
\* non-success status, the run has ended with the provider error carrying
\* that response's body, and no mutator or activate request follows the clone.
C2_CloneFailureStops ==
    \A i \in DOMAIN log :
        (entry = "main" /\ log[i].op = "clone" /\ log[i].status # HTTP_OK)
        => /\ Done
           /\ result.kind = "raise" /\ result.type = "FastlyException"
           /\ result.text = resp.text
           /\ \A j \in DOMAIN log : j > i => log[j].op \notin WorkflowOps

C2_Witness ==
    /\ MainDone /\ log # << >> /\ Last.op = "clone" /\ Last.status = 404

\* the entries of the last listing that carry the requested name
Named == {resp.listing[i] : i \in {k \in DOMAIN resp.listing : resp.listing[k].name = f.name}}
DistinctVersions ==
    \A i, j \in DOMAIN resp.listing :
        (/\ i # j /\ resp.listing[i].name = f.name /\ resp.listing[j].name = f.name)
        => resp.listing[i].version # resp.listing[j].version
LookupDone == entry = "get_service" /\ Done

\* C3: a lookup whose listing succeeded and holds entries of the requested
\* name with distinct versions returns one of those entries, and none of
\* them has a higher version; entries of other names play no part.
C3_MaxVersionOfName ==
    (LookupDone /\ resp.status_code = HTTP_OK /\ Named # {} /\ DistinctVersions)
    => /\ result.kind = "return"
       /\ result.service \in Named
       /\ \A e \in Named : e.version <= result.service.version

C3_Witness ==
    /\ LookupDone /\ resp.status_code = HTTP_OK /\ DistinctVersions
    /\ Cardinality(Named) = 2
    /\ \E i \in DOMAIN resp.listing :
           /\ resp.listing[i].name # f.name
           /\ \A e \in Named : resp.listing[i].version > e.version
    /\ resp.listing[1].name = f.name
    /\ resp.listing[1].version > resp.listing[Len(resp.listing)].version
    /\ result.service = resp.listing[1]

\* C4: a lookup whose listing succeeded without an entry of the requested
\* name raises NotFoundException and returns nothing; a lookup whose listing
\* request failed raises UsageException instead.
C4_NotFound ==
    LookupDone
    => /\ (resp.status_code = HTTP_OK /\ Named = {})
            => result.kind = "raise" /\ result.type = "NotFoundException"
       /\ resp.status_code # HTTP_OK
            => result.kind = "raise" /\ result.type = "UsageException"

C4_Witness ==
    /\ LookupDone /\ resp.status_code = HTTP_OK
    /\ Len(resp.listing) = 2 /\ Named = {}
    /\ result.type = "NotFoundException"

UploadPhase == SelectSeq(log, LAMBDA x : x.op \in {"vcl", "vcl_main"})
OkButDelete == \A i \in DOMAIN log : log[i].op # "vcl_item" => log[i].status = HTTP_OK

\* C5: a main run with a VCL input whose clone succeeded (and whose other
\* requests all succeeded, the VCL delete aside) has sent exactly the
\* create-content POST and then the set-main PUT for the cloned version.
C5_TwoUploadRequests ==
    \A i \in DOMAIN log :
        (MainDone /\ ClonedAt(i) /\ Truthy(args.vcl) /\ OkButDelete)
        => /\ Len(UploadPhase) = 2
           /\ UploadPhase[1].method = "POST" /\ UploadPhase[1].op = "vcl"
           /\ UploadPhase[2].method = "PUT" /\ UploadPhase[2].op = "vcl_main"
           /\ UploadPhase[1].ver = log[i].number
           /\ UploadPhase[2].ver = log[i].number

NoKeyAnywhere == entry = "main" /\ API_KEY = "" /\ args.key = None

\* C6 as stated: a main run with no credential in the environment and no
\* --key ends with AuthException and has made no request.
C6_AuthBeforeNetwork_Original ==
    (NoKeyAnywhere /\ Done)
    => result.kind = "raise" /\ result.type = "AuthException" /\ log = << >>

\* C6 amended: such a run makes no request; given a service name it ends
\* with AuthException, and without one with UsageException.
C6_AuthBeforeNetwork ==
    NoKeyAnywhere
    => /\ log = << >>
       /\ Done => /\ result.kind = "raise"
                  /\ result.type = IF Truthy(args.name) THEN "AuthException"
                                   ELSE "UsageException"

C6_Witness ==
    /\ NoKeyAnywhere /\ Done /\ Truthy(args.name)
    /\ result.type = "AuthException" /\ log = << >>

Mutators == {"upload_vcl", "delete_vcl", "add_domain", "delete_domain",
             "create_backend", "delete_backend", "create_token"}

\* C7: a resource mutator whose own request was answered with an error
\* status (400 or above) has raised FastlyException carrying the response
\* body.
C7_MutatorsRaise ==
    (/\ entry \in Mutators /\ Done /\ log # << >>
     /\ Last.op # "service" /\ Last.status >= 400)
    => /\ result.kind = "raise" /\ result.type = "FastlyException"
       /\ result.text = resp.text

CertGiven == IF entry = "main" THEN args.cert ELSE f.cert

\* C8: every backend payload sent with a certificate holds port 443,
\* use_ssl true, ssl_check_cert true and the certificate file's contents as
\* ssl_ca_cert; every one sent without holds exactly address,
\* first_byte_timeout and name.
C8_BackendPayload ==
    \A i \in DOMAIN log :
        log[i].op = "backend"
        => /\ Cardinality(Keys(log[i].data)) = Cardinality(log[i].data)
           /\ IF CertGiven # None
              THEN {<<"port", "number", "443">>, <<"use_ssl", "true", "true">>,
                    <<"ssl_check_cert", "true", "true">>,
                    <<"ssl_ca_cert", "string", "CERTIFICATE">>} \subseteq log[i].data
              ELSE Keys(log[i].data) = {"address", "first_byte_timeout", "name"}

C8_Witness ==
    /\ entry = "create_backend" /\ Done /\ f.cert = "ca.pem"
    /\ log # << >> /\ Last.op = "backend" /\ Last.status = HTTP_OK
    /\ result.kind = "return"

\* C9: a main run whose clone and other requests all succeeded has sent an
\* activate request for the cloned version exactly when activation was not
\* turned off with --activate 0.
C9_ActivateFlag ==
    \A i \in DOMAIN log :
        (MainDone /\ ClonedAt(i) /\ AllOk)
        => ((\E j \in DOMAIN log :
                 j > i /\ log[j].op = "activate" /\ log[j].ver = log[i].number)
            <=> args.activate # "0")

Rank(op) ==
    CASE op = "backend" -> 1
      [] op = "vcl_item" -> 2
      [] op = "vcl" -> 3
      [] op = "vcl_main" -> 4
      [] op = "domain" -> 5
      [] op = "activate" -> 6
      [] OTHER -> 0

\* C10: in a main run the mutator requests come in the order backend, VCL,
\* domain, activate; a failed one other than the VCL delete is the run's
\* last request; no delete of a backend or domain is sent; and a run whose
\* clone succeeded and whose only failures are VCL deletes has sent the
\* request of every supplied mutator, the upload after a failed delete
\* included.
C10_OrderAndAbort ==
    entry = "main"
    => /\ \A i, j \in DOMAIN log :
              (i < j /\ log[i].op \in WorkflowOps /\ log[j].op \in WorkflowOps)
              => Rank(log[i].op) < Rank(log[j].op)
       /\ \A i \in DOMAIN log :
              (/\ log[i].op \in WorkflowOps \ {"vcl_item"}
               /\ log[i].status # HTTP_OK)
              => i = Len(log) /\ Done /\ result.kind = "raise"
       /\ \A i \in DOMAIN log : log[i].op \notin {"backend_item", "domain_item"}
       /\ \A i \in DOMAIN log :
              (Done /\ ClonedAt(i) /\ OkButDelete)
              => /\ Truthy(args.backend) => HasOp("backend", i)
                 /\ Truthy(args.vcl) => HasOp("vcl_item", i) /\ HasOp("vcl", i)
                 /\ Truthy(args.domain) => HasOp("domain", i)

=============================================================================
